---- MODULE Spec2Model ----
(***************************************************************************)
(* Model of hack/errata.py: the errata feed poller, its seen-cache, the    *)
(* notifier and the review-bot that approves "fast" pull requests.         *)
(***************************************************************************)
EXTENDS Integers, Sequences, FiniteSets, TLC

(***************************************************************************)
(* Bounds of the model.                                                    *)
(***************************************************************************)
MaxRuns == 2
MaxPolls == 2
MaxPages == 2
MaxRows == 2
MaxOpenPRs == 2
MaxSaves == 2

(***************************************************************************)
(* Python values.  An optional value (dict.get, a function that may return *)
(* None) is a sequence: <<>> is None, <<v>> is the value v.                *)
(***************************************************************************)
None == <<>>
Some(v) == <<v>>

Get(d, k) == IF k \in DOMAIN d THEN Some(d[k]) ELSE None

HasKey(d, k) == k \in DOMAIN d

(***************************************************************************)
(* Python string operations, on TLA+ strings.                              *)
(***************************************************************************)
StartsWith(s, p) == Len(s) >= Len(p) /\ SubSeq(s, 1, Len(p)) = p

Contains(s, p) == \E i \in 1..(Len(s) - Len(p) + 1) : SubSeq(s, i, i + Len(p) - 1) = p

\* positions of the one-character separator sep in s
SepPositions(s, sep) == {i \in 1..Len(s) : SubSeq(s, i, i) = sep}

Min(S) == CHOOSE x \in S : \A y \in S : x <= y

RECURSIVE Split(_, _)
Split(s, sep) ==
    IF SepPositions(s, sep) = {}
    THEN <<s>>
    ELSE LET i == Min(SepPositions(s, sep))
         IN <<SubSeq(s, 1, i - 1)>> \o Split(SubSeq(s, i + 1, Len(s)), sep)

Digits == <<"0", "1", "2", "3", "4", "5", "6", "7", "8", "9">>

IsDigit(c) == \E d \in 1..10 : Digits[d] = c

DigitVal(c) == (CHOOSE d \in 1..10 : Digits[d] = c) - 1

RECURSIVE DigitsVal(_)
DigitsVal(s) ==
    IF Len(s) = 0 THEN 0
    ELSE 10 * DigitsVal(SubSeq(s, 1, Len(s) - 1)) + DigitVal(SubSeq(s, Len(s), Len(s)))

AllDigits(s) == Len(s) > 0 /\ \A i \in 1..Len(s) : IsDigit(SubSeq(s, i, i))

\* int(s): an optional sign and decimal digits, else ValueError (None here)
ParseInt(s) ==
    IF AllDigits(s) THEN Some(DigitsVal(s))
    ELSE IF Len(s) > 1 /\ SubSeq(s, 1, 1) = "-" /\ AllDigits(SubSeq(s, 2, Len(s)))
         THEN Some(0 - DigitsVal(SubSeq(s, 2, Len(s))))
    ELSE IF Len(s) > 1 /\ SubSeq(s, 1, 1) = "+" /\ AllDigits(SubSeq(s, 2, Len(s)))
         THEN Some(DigitsVal(SubSeq(s, 2, Len(s))))
    ELSE None

(***************************************************************************)
(* The data the environment can supply.                                    *)
(***************************************************************************)
AdvA == "RHBA-2021:0001"
AdvB == "RHBA-2021:0002"
Ids == {AdvA, AdvB}

SynFix == "bug fix update for X"
SynCap == "Bug Fix Update for X"

Msg(id, syn, when, eid) ==
    [fulladvisory |-> id, synopsis |-> syn, when |-> when, errata_id |-> eid,
     product |-> "RHOSE", to |-> "SHIPPED_LIVE"]

\* messages of the feed: shipped RHOSE advisories, and messages of another
\* product, another state, or lacking product or to; every message carries
\* fulladvisory, synopsis and when, which run reads by subscript
Messages ==
    { Msg(AdvA, SynFix, "t1", 1234),
      Msg(AdvA, SynFix, "t2", 1234),
      Msg(AdvB, SynFix, "t1", 1234),
      Msg(AdvB, SynFix, "t1", 0),
      Msg(AdvA, SynCap, "t1", 1234),
      [Msg(AdvA, SynFix, "t1", 1234) EXCEPT !.product = "RHEL"],
      [Msg(AdvB, SynFix, "t1", 1234) EXCEPT !.to = "QE"],
      [fulladvisory |-> AdvA, synopsis |-> SynFix, when |-> "t1", errata_id |-> 1234,
       to |-> "SHIPPED_LIVE"],
      [fulladvisory |-> AdvB, synopsis |-> SynFix, when |-> "t1", errata_id |-> 1234,
       product |-> "RHOSE"] }

\* responses of the feed: the number of entries of raw_messages and the total
\* page count; a response can lack either key.  The entries themselves are
\* drawn from Messages as the loop of poll reads them.
Responses ==
    {[raw_messages |-> k, pages |-> p] : k \in 0..MaxRows, p \in 0..MaxPages}
    \cup {[raw_messages |-> k] : k \in 0..MaxRows}
    \cup {[pages |-> p] : p \in 0..MaxPages}

MarkerUrl == "https://errata.devel.redhat.com/advisory/"

\* open pull requests, in listing order; a request without description has no body
PullUniverse ==
    << [number |-> 1, title |-> "Enable X Y fast",
        body |-> "See " \o MarkerUrl \o "1234 for details\nmore text"],
       [number |-> 2, title |-> "Enable X Y fast",
        body |-> MarkerUrl \o "1234"],
       [number |-> 3, title |-> "Enable X Y fast",
        body |-> "See " \o MarkerUrl \o "5678 for details"],
       [number |-> 4, title |-> "Enable X Y fast",
        body |-> "See " \o MarkerUrl \o "0"],
       [number |-> 5, title |-> "Enable X Y fast",
        body |-> "no link here\n" \o MarkerUrl \o "1234"],
       [number |-> 6, title |-> "Enable X Y fast",
        body |-> "See " \o MarkerUrl \o "12ab and " \o MarkerUrl \o "1234"],
       [number |-> 7, title |-> "Enable X Y stable",
        body |-> "See " \o MarkerUrl \o "1234"],
       [number |-> 8, title |-> "Enable X",
        body |-> "See " \o MarkerUrl \o "1234"],
       [number |-> 9, title |-> "Block X in fast",
        body |-> "See " \o MarkerUrl \o "1234"],
       [number |-> 10, title |-> "Enable X Y fast"] >>

PullNumbers == {PullUniverse[i].number : i \in DOMAIN PullUniverse}

RECURSIVE IncreasingFrom(_, _)
\* index sequences lo <= i1 < i2 < ... of length at most n
IncreasingFrom(lo, n) ==
    IF n = 0 THEN {<<>>}
    ELSE {<<>>} \cup
         UNION {{<<i>> \o t : t \in IncreasingFrom(i + 1, n - 1)} : i \in lo..Len(PullUniverse)}

\* the lists of open pull requests a listing can return
PullLists ==
    {[k \in 1..Len(ix) |-> PullUniverse[ix[k]]] : ix \in IncreasingFrom(1, MaxOpenPRs)}

(***************************************************************************)
(* Cache store: load and save.  The file is None when absent, else the     *)
(* serialised object: its members in sorted key order.                     *)
(***************************************************************************)
EmptyCache == <<>>

\* code points of the characters of the advisory ids, ascending
Alphabet == "-0123456789:ABCDEFGHIJKLMNOPQRSTUVWXYZ"

Code(c) == CHOOSE i \in 1..Len(Alphabet) : SubSeq(Alphabet, i, i) = c

\* a < b in Python's string order
StrLess(a, b) ==
    \E i \in 1..(Len(a) + 1) :
        /\ i <= Len(b)
        /\ SubSeq(a, 1, i - 1) = SubSeq(b, 1, i - 1)
        /\ \/ i = Len(a) + 1
           \/ Code(SubSeq(a, i, i)) < Code(SubSeq(b, i, i))

RECURSIVE SortedKeys(_)
SortedKeys(K) ==
    IF K = {} THEN <<>>
    ELSE LET k == CHOOSE x \in K : \A y \in K \ {x} : StrLess(x, y)
         IN <<k>> \o SortedKeys(K \ {k})

\* mutant of Dump: only the first member is written
DumpFirstOnly(c) ==
    LET keys == SortedKeys(DOMAIN c)
    IN [i \in 1..(IF Len(keys) > 1 THEN 1 ELSE Len(keys)) |->
            [key |-> keys[i], when |-> c[keys[i]].when, synopsis |-> c[keys[i]].synopsis]]

\* json.dump(cache, f, sort_keys=True, indent=2)
Dump(c) ==
    LET keys == SortedKeys(DOMAIN c)
    IN [i \in 1..Len(keys) |->
            [key |-> keys[i], when |-> c[keys[i]].when, synopsis |-> c[keys[i]].synopsis]]

\* json.load(f)
Parse(text) ==
    [k \in {text[i].key : i \in DOMAIN text} |->
        LET i == CHOOSE j \in DOMAIN text : text[j].key = k
        IN [when |-> text[i].when, synopsis |-> text[i].synopsis]]

load(f) == IF f = None THEN EmptyCache ELSE Parse(f[1])

save(c) == Some(Dump(c))

(***************************************************************************)
(* poll: the client-side filter and the page loop.                         *)
(***************************************************************************)
RetryDelay == 10

\* mutant of Yields: "or" for "and"
YieldsEither(message) ==
    Get(message, "product") = Some("RHOSE") \/ Get(message, "to") = Some("SHIPPED_LIVE")

\* message.get('product') == 'RHOSE' and message.get('to') == 'SHIPPED_LIVE'
Yields(message) ==
    Get(message, "product") = Some("RHOSE") /\ Get(message, "to") = Some("SHIPPED_LIVE")

\* mutant of LastPage: ">" for ">="
LastPageStrict(pg, pages) == pg > pages

\* page >= data['pages']
LastPage(pg, pages) == pg >= pages

\* mutant of RetryPage: the failed page is given up
RetryPageAdvances(pg) == pg + 1

\* the page requested after a failed fetch (continue, page unchanged)
RetryPage(pg) == pg

(***************************************************************************)
(* run: the skip test and the cache insertion.                             *)
(***************************************************************************)
\* 'bug fix update' in message['synopsis']
IsBugFix(synopsis) == Contains(synopsis, "bug fix update")

\* mutant of Seen: the wrong field is looked up
SeenBySynopsis(isNone, c, message) ==
    /\ ~isNone
    /\ DOMAIN c # {}
    /\ message.synopsis \in DOMAIN c

\* cache and message['fulladvisory'] in cache
Seen(isNone, c, message) ==
    /\ ~isNone
    /\ DOMAIN c # {}
    /\ message.fulladvisory \in DOMAIN c

\* mutant of Skips: "cache and (... or ...)"
SkipsIfCache(isNone, c, message) ==
    /\ ~isNone
    /\ DOMAIN c # {}
    /\ (message.fulladvisory \in DOMAIN c \/ ~Contains(message.synopsis, "bug fix update"))

\* mutant of Skips: the cache is not consulted
SkipsBySynopsisOnly(isNone, c, message) ==
    ~Contains(message.synopsis, "bug fix update")

\* mutant of Skips: "not cache or ..." for "cache and ..."
SkipsWithoutCache(isNone, c, message) ==
    \/ isNone
    \/ DOMAIN c = {}
    \/ message.fulladvisory \in DOMAIN c
    \/ ~Contains(message.synopsis, "bug fix update")

\* cache and message['fulladvisory'] in cache
\*     or 'bug fix update' not in message['synopsis']
Skips(isNone, c, message) ==
    Seen(isNone, c, message) \/ ~IsBugFix(message.synopsis)

\* mutant of Record: the two fields are swapped
RecordSwapped(c, message) ==
    [k \in DOMAIN c \cup {message.fulladvisory} |->
        IF k = message.fulladvisory
        THEN [when |-> message.synopsis, synopsis |-> message.when]
        ELSE c[k]]

\* cache[message['fulladvisory']] = {'when': ..., 'synopsis': ...}
Record(c, message) ==
    [k \in DOMAIN c \cup {message.fulladvisory} |->
        IF k = message.fulladvisory
        THEN [when |-> message.when, synopsis |-> message.synopsis]
        ELSE c[k]]

(***************************************************************************)
(* notify: "printed", "posted" or "raised".                                *)
(***************************************************************************)
notify(message, hook, delivers) ==
    IF ~hook THEN "printed"
    ELSE IF delivers THEN "posted"
    ELSE "raised"

(***************************************************************************)
(* The review-bot.                                                         *)
(***************************************************************************)
TitlePasses(title) ==
    /\ StartsWith(title, "Enable ")
    /\ Len(Split(title, " ")) >= 4
    /\ Split(title, " ")[4] = "fast"

get_open_prs_to_fast(pulls) == SelectSeq(pulls, LAMBDA pr : TitlePasses(pr.title))

extract_errata_number_from_body(body) ==
    LET first_line == Split(body, "\n")[1]
        links == SelectSeq(Split(first_line, " "), LAMBDA x : StartsWith(x, MarkerUrl))
    IN IF Len(links) = 0 THEN None
       ELSE LET parts == Split(links[1], "/")
            IN ParseInt(parts[Len(parts)])

\* mutant of Falsy: "errata_num is None"
FalsyNoneOnly(num) == num = None

\* not errata_num
Falsy(num) == num = None \/ num = Some(0)

\* not errata_num or errata_num != message.get('errata_id')
NoMatch(num, message) == Falsy(num) \/ num # Get(message, "errata_id")

\* pr.create_issue_comment(msg): the comments a matching request receives
CommentsFor(pr) == <<pr.number>>

RECURSIVE LgtmLoop(_, _, _)
\* the loop over the filtered requests; budget is the number of API calls
\* that succeed before one raises
LgtmLoop(message, prs, budget) ==
    IF prs = <<>> THEN [comments |-> <<>>, raised |-> FALSE, calls |-> 0]
    ELSE LET pr == Head(prs)
         IN IF ~HasKey(pr, "body") THEN [comments |-> <<>>, raised |-> TRUE, calls |-> 0]
            ELSE IF NoMatch(extract_errata_number_from_body(pr.body), message)
                 THEN LgtmLoop(message, Tail(prs), budget)
            ELSE IF budget < 1 THEN [comments |-> <<>>, raised |-> TRUE, calls |-> 1]
            ELSE IF budget < 2 THEN [comments |-> <<>>, raised |-> TRUE, calls |-> 2]
            ELSE LET r == LgtmLoop(message, Tail(prs), budget - 2)
                 IN [comments |-> CommentsFor(pr) \o r.comments, raised |-> r.raised,
                     calls |-> r.calls + 2]

\* mutant of lgtm_fast_pr_for_errata: the token test is missing
lgtm_without_token_test(message, github_token, pulls, budget) ==
    IF budget < 1 THEN [comments |-> <<>>, raised |-> TRUE, calls |-> 1]
    ELSE IF budget < 2 THEN [comments |-> <<>>, raised |-> TRUE, calls |-> 2]
    ELSE LET r == LgtmLoop(message, get_open_prs_to_fast(pulls), budget - 2)
         IN [comments |-> r.comments, raised |-> r.raised, calls |-> r.calls + 2]

lgtm_fast_pr_for_errata(message, github_token, pulls, budget) ==
    IF ~github_token THEN [comments |-> <<>>, raised |-> FALSE, calls |-> 0]
    ELSE IF budget < 1 THEN [comments |-> <<>>, raised |-> TRUE, calls |-> 1]
    ELSE IF budget < 2 THEN [comments |-> <<>>, raised |-> TRUE, calls |-> 2]
    ELSE LET r == LgtmLoop(message, get_open_prs_to_fast(pulls), budget - 2)
         IN [comments |-> r.comments, raised |-> r.raised, calls |-> r.calls + 2]

\* API calls a pass can need: get_repo, the listing, two for each request
FullBudget == 2 + 2 * MaxOpenPRs

\* what one review-bot call can do for a message, over the listings of open
\* requests and the points at which the API can fail
BotResults(message, github_token) ==
    {lgtm_fast_pr_for_errata(message, github_token, pulls, budget) :
        pulls \in PullLists, budget \in 0..FullBudget}

BotResultTable == [m \in Messages |-> [t \in BOOLEAN |-> BotResults(m, t)]]

(***************************************************************************)
(* State.                                                                  *)
(***************************************************************************)
VARIABLES
    pc,             \* "start", "fetch", "retry_sleep", "messages", "sleep", "exited"
    file,           \* .errata.json: None, or Some(serialised cache)
    cache,          \* the mapping run works on
    cacheIsNone,    \* run was called with cache=None
    webhook,        \* a webhook is configured
    token,          \* GITHUB_TOKEN is set
    page,           \* poll: page
    data,           \* poll: the parsed response of the current page
    idx,            \* poll: position in data['raw_messages'], from 1
    retrySleep,     \* seconds of the retry sleep in progress, 0 when none
    runs,           \* processes started so far
    polls,          \* poll calls made so far, all processes
    retried,        \* a fetch of the current page has failed in this poll call
    fetched,        \* pages fetched successfully by this poll call
    pagesSeen,      \* values of data['pages'] reported to this poll call
    yielded,        \* positions of the messages poll yielded from the current page
    last,           \* what the loops did with the latest raw message
    delivered,      \* advisories notify has returned for, all processes
    cycleCommented, \* requests commented on in this poll cycle
    loaded,         \* the cache as loaded by this process
    saves,          \* saves made by this process
    botIn,          \* review-bot call under check: its arguments
    botOut,         \* review-bot call under check: its result
    cycleCache,     \* the cache as it was when this poll cycle began
    cycleFirst,     \* per advisory: the first new bug fix message yielded in this cycle
    cycleNotifies,  \* per advisory: invocations of notify in this cycle
    approvedFor,    \* advisories that brought a comment, this process
    prevFile,       \* .errata.json as it was before the latest save
    now,            \* clock: the current time, in ticks
    next_time,      \* run: next_time, in ticks
    sleepFor        \* run: the argument of the latest time.sleep, in seconds

conf == <<cacheIsNone, webhook, token>>

botv == <<botIn, botOut>>

cyc == <<cycleCache, cycleFirst, cycleNotifies>>

clock == <<now, next_time, sleepFor>>

vars == <<pc, file, cache, conf, page, data, idx, retrySleep, runs, polls, retried,
          fetched, pagesSeen, yielded, last, delivered, cycleCommented, loaded, saves,
          botv, cyc, approvedFor, prevFile, clock>>

NoData == [pages |-> 0]

NoMessage == [fulladvisory |-> "", synopsis |-> ""]

NoLast == [kind |-> "none", msg |-> NoMessage, notify |-> "none", bot |-> "none",
           comments |-> <<>>, api |-> FALSE, stored |-> FALSE]

NoBotIn == [message |-> NoMessage, pulls |-> <<>>, budget |-> 0]

NoBotOut == [comments |-> <<>>, raised |-> FALSE, calls |-> 0, called |-> FALSE]

\* contents .errata.json can have when the first process starts
InitialFiles ==
    {None, save([k \in {AdvA} |-> [when |-> "t0", synopsis |-> SynFix]])}

InitCommon ==
    /\ pc = "start"
    /\ cache = EmptyCache
    /\ page = 1
    /\ data = NoData
    /\ idx = 1
    /\ retrySleep = 0
    /\ runs = 0
    /\ polls = 0
    /\ retried = FALSE
    /\ fetched = <<>>
    /\ pagesSeen = {}
    /\ yielded = <<>>
    /\ last = NoLast
    /\ delivered = {}
    /\ cycleCommented = {}
    /\ loaded = EmptyCache
    /\ saves = 0
    /\ botOut = NoBotOut
    /\ cycleCache = EmptyCache
    /\ cycleFirst = <<>>
    /\ cycleNotifies = <<>>
    /\ approvedFor = {}
    /\ prevFile = None
    /\ now = 0
    /\ next_time = 0
    /\ sleepFor = 0

\* the program as __main__ runs it: run(cache=load(...))
Init ==
    /\ InitCommon
    /\ file \in InitialFiles
    /\ webhook \in BOOLEAN
    /\ token \in BOOLEAN
    /\ cacheIsNone = FALSE
    /\ botIn = NoBotIn

(***************************************************************************)
(* Steps.                                                                  *)
(***************************************************************************)
\* the start of a poll call: page = 1
BeginPoll ==
    /\ polls' = polls + 1
    /\ page' = 1
    /\ retried' = FALSE
    /\ fetched' = <<>>
    /\ pagesSeen' = {}
    /\ yielded' = <<>>
    /\ cycleCommented' = {}
    /\ cycleCache' = cache'
    /\ cycleFirst' = <<>>
    /\ cycleNotifies' = <<>>
    /\ data' = NoData
    /\ idx' = 1
    /\ last' = NoLast
    /\ pc' = "fetch"

\* mutant of Unwind: the exception leaves without the save
UnwindUnsaved(c) ==
    /\ pc' = "exited"
    /\ file' = file
    /\ prevFile' = prevFile
    /\ saves' = saves

\* an exception leaves run: __main__ saves the cache and re-raises
Unwind(c) ==
    /\ pc' = "exited"
    /\ file' = IF cacheIsNone THEN file ELSE save(c)
    /\ prevFile' = IF cacheIsNone THEN prevFile ELSE file
    /\ saves' = IF cacheIsNone THEN saves ELSE saves + 1

\* __main__: load the cache and enter run, which polls at once
Start ==
    /\ pc \in {"start", "exited"}
    /\ runs < MaxRuns
    /\ polls < MaxPolls
    /\ runs' = runs + 1
    /\ cache' = IF cacheIsNone THEN EmptyCache ELSE load(file)
    /\ loaded' = cache'
    /\ saves' = 0
    /\ approvedFor' = {}
    /\ BeginPoll
    /\ UNCHANGED <<file, prevFile, conf, retrySleep, delivered, botv, clock>>

\* poll: the page fetch succeeds and the response has raw_messages
FetchOk ==
    /\ pc = "fetch"
    /\ \E d \in {r \in Responses : HasKey(r, "raw_messages")} :
          /\ data' = d
          /\ pagesSeen' = IF HasKey(d, "pages") THEN pagesSeen \cup {d.pages} ELSE pagesSeen
    /\ idx' = 1
    /\ yielded' = <<>>
    /\ fetched' = Append(fetched, page)
    /\ last' = NoLast
    /\ pc' = "messages"
    /\ UNCHANGED <<file, cache, conf, page, retrySleep, runs, polls, retried,
                   delivered, cycleCommented, loaded, saves, botv, cyc, approvedFor,
                   prevFile, clock>>

\* poll: the response parses but has no raw_messages: KeyError leaves run
FetchBad ==
    /\ pc = "fetch"
    /\ \E d \in {r \in Responses : ~HasKey(r, "raw_messages")} :
          /\ data' = d
          /\ pagesSeen' = pagesSeen \cup {d.pages}
    /\ idx' = 1
    /\ yielded' = <<>>
    /\ fetched' = Append(fetched, page)
    /\ last' = NoLast
    /\ Unwind(cache)
    /\ UNCHANGED <<cache, conf, page, retrySleep, runs, polls, retried,
                   delivered, cycleCommented, loaded, botv, cyc, approvedFor, clock>>

\* poll: transport or parse error: log, sleep 10, retry the page
FetchFail ==
    /\ pc = "fetch"
    /\ retried' = TRUE
    /\ page' = RetryPage(page)
    /\ retrySleep' = RetryDelay
    /\ last' = NoLast
    /\ pc' = "retry_sleep"
    /\ UNCHANGED <<file, cache, conf, data, idx, runs, polls, fetched, pagesSeen,
                   yielded, delivered, cycleCommented, loaded, saves, botv, cyc,
                   approvedFor, prevFile, clock>>

\* poll: the sleep(10) returns, continue
RetryWake ==
    /\ pc = "retry_sleep"
    /\ pc' = "fetch"
    /\ retrySleep' = 0
    /\ UNCHANGED <<file, cache, conf, page, data, idx, runs, polls, retried, fetched,
                   pagesSeen, yielded, last, delivered, cycleCommented, loaded, saves,
                   botv, cyc, approvedFor, prevFile, clock>>

AtMessage == pc = "messages" /\ idx <= data.raw_messages

\* poll: raw message m fails the product/to test and is not yielded
Drop(m) ==
    /\ AtMessage
    /\ ~Yields(m)
    /\ idx' = idx + 1
    /\ last' = [NoLast EXCEPT !.kind = "dropped", !.msg = m]
    /\ UNCHANGED <<pc, file, cache, conf, page, data, retrySleep, runs, polls, retried,
                   fetched, pagesSeen, yielded, delivered, cycleCommented, loaded,
                   saves, botv, cyc, approvedFor, prevFile, clock>>

\* history: m is yielded; it is the first message of the cycle for its advisory
\* when the advisory was not cached as the cycle began and m is a bug fix update
FirstSeen(first, start, m) ==
    IF /\ m.fulladvisory \notin DOMAIN start
       /\ Contains(m.synopsis, "bug fix update")
       /\ m.fulladvisory \notin DOMAIN first
    THEN [k \in DOMAIN first \cup {m.fulladvisory} |->
             IF k = m.fulladvisory THEN m ELSE first[k]]
    ELSE first

\* history: one more invocation of notify for the advisory of m
Counted(counts, m) ==
    [k \in DOMAIN counts \cup {m.fulladvisory} |->
        IF k = m.fulladvisory
        THEN (IF k \in DOMAIN counts THEN counts[k] + 1 ELSE 1)
        ELSE counts[k]]

\* run: yielded message m is cached or is no bug fix update: continue
Skip(m) ==
    /\ AtMessage
    /\ Yields(m)
    /\ Skips(cacheIsNone, cache, m)
    /\ idx' = idx + 1
    /\ yielded' = Append(yielded, idx)
    /\ last' = [NoLast EXCEPT !.kind = "skipped", !.msg = m]
    /\ cycleFirst' = FirstSeen(cycleFirst, cycleCache, m)
    /\ UNCHANGED <<pc, file, cache, conf, page, data, retrySleep, runs, polls, retried,
                   fetched, pagesSeen, delivered, cycleCommented, loaded, saves, botv,
                   cycleCache, cycleNotifies, approvedFor, prevFile, clock>>

Range(q) == {q[i] : i \in DOMAIN q}

\* what the loop body did with message m
Done(m, n, b, st) ==
    [kind |-> "handled", msg |-> m, notify |-> n,
     bot |-> IF b.raised THEN "raised" ELSE "returned",
     comments |-> b.comments, api |-> b.calls > 0, stored |-> st]

\* mutant of HandleWith: the cache insertion comes before notify
HandleWithRecordFirst(m, delivers, b) ==
    LET n == notify(m, webhook, delivers)
    IN /\ yielded' = Append(yielded, idx)
       /\ cycleFirst' = FirstSeen(cycleFirst, cycleCache, m)
       /\ cycleNotifies' = Counted(cycleNotifies, m)
       /\ IF n = "raised"
          THEN /\ last' = [NoLast EXCEPT !.kind = "handled", !.msg = m, !.notify = n]
               /\ Unwind(Record(cache, m))
               /\ cache' = Record(cache, m)
               /\ UNCHANGED <<idx, delivered, cycleCommented, approvedFor>>
          ELSE /\ delivered' = delivered \cup {m.fulladvisory}
               /\ cycleCommented' = cycleCommented \cup Range(b.comments)
               /\ approvedFor' = IF b.comments = <<>> THEN approvedFor
                                  ELSE approvedFor \cup {m.fulladvisory}
               /\ IF b.raised
                  THEN /\ last' = Done(m, n, b, FALSE)
                       /\ Unwind(cache)
                       /\ UNCHANGED <<cache, idx>>
                  ELSE IF cacheIsNone
                  THEN /\ last' = Done(m, n, b, FALSE)
                       /\ idx' = idx + 1
                       /\ UNCHANGED <<pc, file, prevFile, saves, cache>>
                  ELSE /\ last' = Done(m, n, b, TRUE)
                       /\ cache' = Record(cache, m)
                       /\ idx' = idx + 1
                       /\ UNCHANGED <<pc, file, prevFile, saves>>

\* run: notify, review-bot, cache insertion for yielded message m
HandleWith(m, delivers, b) ==
    LET n == notify(m, webhook, delivers)
    IN /\ yielded' = Append(yielded, idx)
       /\ cycleFirst' = FirstSeen(cycleFirst, cycleCache, m)
       /\ cycleNotifies' = Counted(cycleNotifies, m)
       /\ IF n = "raised"
          THEN /\ last' = [NoLast EXCEPT !.kind = "handled", !.msg = m, !.notify = n]
               /\ Unwind(cache)
               /\ UNCHANGED <<cache, idx, delivered, cycleCommented, approvedFor>>
          ELSE /\ delivered' = delivered \cup {m.fulladvisory}
               /\ cycleCommented' = cycleCommented \cup Range(b.comments)
               /\ approvedFor' = IF b.comments = <<>> THEN approvedFor
                                  ELSE approvedFor \cup {m.fulladvisory}
               /\ IF b.raised
                  THEN /\ last' = Done(m, n, b, FALSE)
                       /\ Unwind(cache)
                       /\ UNCHANGED <<cache, idx>>
                  ELSE IF cacheIsNone
                  THEN /\ last' = Done(m, n, b, FALSE)
                       /\ idx' = idx + 1
                       /\ UNCHANGED <<pc, file, prevFile, saves, cache>>
                  ELSE /\ last' = Done(m, n, b, TRUE)
                       /\ cache' = Record(cache, m)
                       /\ idx' = idx + 1
                       /\ UNCHANGED <<pc, file, prevFile, saves>>

Handle(m) ==
    /\ AtMessage
    /\ Yields(m)
    /\ ~Skips(cacheIsNone, cache, m)
    /\ \E delivers \in BOOLEAN, b \in BotResultTable[m][token] :
          HandleWith(m, delivers, b)
    /\ UNCHANGED <<conf, page, data, retrySleep, runs, polls, retried, fetched,
                   pagesSeen, loaded, botv, cycleCache, clock>>

\* poll: after the messages of a page: stop at the last page, else next page;
\* when poll returns, run goes to sleep until the next cycle
PageEnd ==
    /\ pc = "messages"
    /\ idx > data.raw_messages
    /\ last' = NoLast
    /\ IF ~HasKey(data, "pages")
       THEN Unwind(cache) /\ UNCHANGED page
       ELSE IF LastPage(page, data.pages)
       THEN pc' = "sleep" /\ UNCHANGED <<page, file, prevFile, saves>>
       ELSE pc' = "fetch" /\ page' = page + 1 /\ UNCHANGED <<file, prevFile, saves>>
    /\ retried' = (retried /\ page' = page)
    /\ UNCHANGED <<cache, conf, data, idx, retrySleep, runs, polls, fetched,
                   pagesSeen, yielded, delivered, cycleCommented, loaded, botv, cyc,
                   approvedFor, clock>>

\* mutant of Wake: the cache is saved after every cycle
WakeSaving ==
    /\ pc = "sleep"
    /\ polls < MaxPolls
    /\ file' = save(cache)
    /\ prevFile' = file
    /\ UNCHANGED <<cache, conf, retrySleep, runs, delivered, loaded, saves,
                   approvedFor, botv, clock>>
    /\ BeginPoll

\* run: the sleep returns, the next cycle polls
Wake ==
    /\ pc = "sleep"
    /\ polls < MaxPolls
    /\ UNCHANGED <<file, prevFile, cache, conf, retrySleep, runs, delivered, loaded, saves,
                   approvedFor, botv, clock>>
    /\ BeginPoll

Next ==
    \/ Start
    \/ FetchOk
    \/ FetchBad
    \/ FetchFail
    \/ RetryWake
    \/ \E m \in Messages : Drop(m)
    \/ \E m \in Messages : Skip(m)
    \/ \E m \in Messages : Handle(m)
    \/ PageEnd
    \/ Wake

Spec == Init /\ [][Next]_vars

(***************************************************************************)
(* run called with its default cache=None, by a caller other than __main__.*)
(***************************************************************************)
InitNone ==
    /\ InitCommon
    /\ file = None
    /\ webhook \in BOOLEAN
    /\ token \in BOOLEAN
    /\ cacheIsNone = TRUE
    /\ botIn = NoBotIn

SpecNone == InitNone /\ [][Next]_vars

(***************************************************************************)
(* The review-bot alone: one call of lgtm_fast_pr_for_errata on each       *)
(* message, listing of open requests and point of API failure.             *)
(***************************************************************************)
BotMessages ==
    Messages \cup
    { Msg(AdvA, SynFix, "t1", 5678),
      [fulladvisory |-> AdvA, synopsis |-> SynFix, when |-> "t1",
       product |-> "RHOSE", to |-> "SHIPPED_LIVE"] }

InitBot ==
    /\ InitCommon
    /\ file = None
    /\ webhook = FALSE
    /\ cacheIsNone = FALSE
    /\ token \in BOOLEAN
    /\ botIn \in [message : BotMessages, pulls : PullLists, budget : 0..FullBudget]

BotCall ==
    /\ ~botOut.called
    /\ LET b == lgtm_fast_pr_for_errata(botIn.message, token, botIn.pulls, botIn.budget)
       IN botOut' = [comments |-> b.comments, raised |-> b.raised, calls |-> b.calls,
                     called |-> TRUE]
    /\ UNCHANGED <<pc, file, cache, conf, page, data, idx, retrySleep, runs, polls,
                   retried, fetched, pagesSeen, yielded, last, delivered,
                   cycleCommented, loaded, saves, botIn, cyc, approvedFor, prevFile,
                   clock>>

NextBot == BotCall

SpecBot == InitBot /\ [][NextBot]_vars

(***************************************************************************)
(* The cache store alone: saves of arbitrary mappings and loads of the     *)
(* file, from a state where .errata.json is absent or present.             *)
(***************************************************************************)
\* the mappings from advisory id to {when, synopsis}
Entries == [when : {"t1", "t2"}, synopsis : {SynFix, SynCap}]

Mappings == UNION {[K -> Entries] : K \in SUBSET Ids}

InitStore ==
    /\ InitCommon
    /\ file \in InitialFiles
    /\ webhook = FALSE
    /\ token = FALSE
    /\ cacheIsNone = FALSE
    /\ botIn = NoBotIn

\* the caller's mapping changes in memory
StoreEdit ==
    /\ pc \in {"start", "loaded", "saved"}
    /\ \E c \in Mappings : cache' = c
    /\ pc' = "edited"
    /\ UNCHANGED <<file, prevFile, conf, page, data, idx, retrySleep, runs, polls,
                   retried, fetched, pagesSeen, yielded, last, delivered,
                   cycleCommented, loaded, saves, botv, cyc, approvedFor, clock>>

\* save(path, cache)
StoreSave ==
    /\ saves < MaxSaves
    /\ file' = save(cache)
    /\ prevFile' = file
    /\ saves' = saves + 1
    /\ pc' = "saved"
    /\ UNCHANGED <<cache, conf, page, data, idx, retrySleep, runs, polls,
                   retried, fetched, pagesSeen, yielded, last, delivered,
                   cycleCommented, loaded, botv, cyc, approvedFor, clock>>

\* load(path), at the start or right after a save
StoreLoad ==
    /\ pc \in {"start", "saved"}
    /\ loaded' = load(file)
    /\ pc' = "loaded"
    /\ UNCHANGED <<file, prevFile, cache, conf, page, data, idx, retrySleep, runs, polls,
                   retried, fetched, pagesSeen, yielded, last, delivered,
                   cycleCommented, saves, botv, cyc, approvedFor, clock>>

NextStore ==
    \/ StoreEdit
    \/ StoreSave
    \/ StoreLoad

SpecStore == InitStore /\ [][NextStore]_vars

(***************************************************************************)
(* The wake-up clock of run alone: cycles of varying length, the target    *)
(* next_time and the sleep computed from it.  Time is in ticks.            *)
(***************************************************************************)
\* resolution of the clock: ticks in a second
TicksPerSecond == 2

\* poll_period, in seconds
PollPeriod == 3600

\* timedelta: seconds in a day
SecondsPerDay == 86400

\* timedelta.seconds: the delta is normalised to days (possibly negative),
\* 0 <= seconds < 86400 and a sub-second rest; the days are left out
Seconds(delta) == (delta \div TicksPerSecond) % SecondsPerDay

\* ticks one cycle (poll, notify, review-bot) can take: no time, 10 seconds,
\* just under, exactly and just over the period, 10 seconds over the period,
\* more than two periods
CycleTicks ==
    {1, 10 * TicksPerSecond,
     PollPeriod * TicksPerSecond - 1, PollPeriod * TicksPerSecond,
     PollPeriod * TicksPerSecond + 1, (PollPeriod + 10) * TicksPerSecond,
     (2 * PollPeriod + 10) * TicksPerSecond}

InitClock ==
    /\ InitCommon
    /\ file = None
    /\ webhook = FALSE
    /\ token = FALSE
    /\ cacheIsNone = FALSE
    /\ botIn = NoBotIn

\* run: next_time = datetime.datetime.now()
ClockStart ==
    /\ pc = "start"
    /\ next_time' = now
    /\ pc' = "polling"
    /\ UNCHANGED <<file, prevFile, cache, conf, page, data, idx, retrySleep, runs, polls,
                   retried, fetched, pagesSeen, yielded, last, delivered,
                   cycleCommented, loaded, saves, botv, cyc, approvedFor, now, sleepFor>>

\* run: the for loop over poll takes d ticks; next_time += poll_period and the
\* argument of time.sleep is computed
ClockCycle ==
    /\ pc = "polling"
    /\ polls < MaxPolls
    /\ polls' = polls + 1
    /\ \E d \in CycleTicks : now' = now + d
    /\ next_time' = next_time + PollPeriod * TicksPerSecond
    /\ sleepFor' = Seconds(next_time' - now')
    /\ pc' = "sleep"
    /\ UNCHANGED <<file, prevFile, cache, conf, page, data, idx, retrySleep, runs,
                   retried, fetched, pagesSeen, yielded, last, delivered,
                   cycleCommented, loaded, saves, botv, cyc, approvedFor>>

\* run: time.sleep returns after the requested seconds, on time or a tick late
ClockWake ==
    /\ pc = "sleep"
    /\ \E late \in {0, 1} : now' = now + sleepFor * TicksPerSecond + late
    /\ pc' = "polling"
    /\ UNCHANGED <<file, prevFile, cache, conf, page, data, idx, retrySleep, runs, polls,
                   retried, fetched, pagesSeen, yielded, last, delivered,
                   cycleCommented, loaded, saves, botv, cyc, approvedFor, next_time,
                   sleepFor>>

NextClock ==
    \/ ClockStart
    \/ ClockCycle
    \/ ClockWake

SpecClock == InitClock /\ [][NextClock]_vars

(***************************************************************************)
(* Properties.                                                             *)
(***************************************************************************)
\* the step is one pass of the loop body of run (notify was invoked)
HandledStep == last'.kind = "handled" /\ yielded' # yielded

\* the step yields a message from poll to the loop of run
YieldStep == last'.kind \in {"skipped", "handled"} /\ yielded' # yielded

\* C1: once an advisory id is in the cache, no later message with that id, in
\* the same poll or a later one, is passed to notify or to the review-bot.
C1_CachedNeverHandled ==
    [][HandledStep => last'.msg.fulladvisory \notin DOMAIN cache]_vars

\* C1 witness: in the second poll of a process, a bug fix message of an advisory
\* inserted during the first poll is skipped, while a loaded advisory is cached too
C1_Witness ==
    /\ last.kind = "skipped"
    /\ last.msg.fulladvisory = AdvB
    /\ Contains(last.msg.synopsis, "bug fix update")
    /\ AdvB \in DOMAIN cache \ DOMAIN loaded
    /\ AdvA \in DOMAIN loaded
    /\ runs = 1
    /\ polls = 2

\* C2: at-most-once delivery over the whole life of the system, a fault exit
\* with its save and a restart included: notify does not complete a second
\* time for an advisory.
C2_AtMostOnce ==
    [][(HandledStep /\ last'.notify # "raised")
          => last'.msg.fulladvisory \notin delivered]_vars

\* C3: a failure inside the review-bot step does not leave the loop: after
\* notify returned the message is recorded and the loop goes on.
C3_BotFailureContained ==
    (last.kind = "handled" /\ last.bot = "raised") => (last.stored /\ pc # "exited")

\* C4: an exception that leaves the loop ends the process with exactly one
\* save, of the loaded entries plus the entries inserted up to the fault, and
\* nothing is retried: the only step after it is the start of a new process.
C4_FaultSavesOnce ==
    /\ [](pc = "exited" =>
            /\ saves = 1
            /\ file # None
            /\ load(file) = cache
            /\ \A k \in DOMAIN loaded : k \in DOMAIN cache /\ cache[k] = loaded[k])
    /\ [][pc = "exited" => (runs' = runs + 1 /\ file' = file /\ delivered' = delivered)]_vars

\* C4 witness: a response without raw_messages ends a process that had loaded
\* one entry and inserted another
C4_Witness ==
    /\ pc = "exited"
    /\ "raw_messages" \notin DOMAIN data
    /\ AdvA \in DOMAIN loaded
    /\ AdvB \in DOMAIN cache \ DOMAIN loaded
    /\ load(file) = cache

\* C5: a message whose synopsis lacks 'bug fix update' is skipped whatever the
\* cache holds: no notify, no review-bot call, no cache insertion.
C5_NoBugFixSkipped ==
    [][(YieldStep /\ ~Contains(last'.msg.synopsis, "bug fix update"))
          => /\ last'.kind = "skipped"
             /\ last'.notify = "none"
             /\ last'.bot = "none"
             /\ cache' = cache
             /\ delivered' = delivered
             /\ cycleCommented' = cycleCommented
             /\ pc' = pc]_vars

\* C5 witness: such a message is skipped while the cache is empty
C5_Witness ==
    /\ last.kind = "skipped"
    /\ last.msg.synopsis = SynCap
    /\ cache = EmptyCache
    /\ ~cacheIsNone

\* the sequence 1, 2, ..., k
UpTo(k) == [i \in 1..k |-> i]

\* C6 as claimed: a poll call to which the feed reports P pages fetches exactly
\* the pages 1, ..., P.
C6_ExactlyPPages ==
    \A P \in 0..MaxPages :
        (pc = "sleep" /\ pagesSeen = {P}) => fetched = UpTo(P)

\* C6 amended: it fetches the pages 1, ..., P when P >= 1, and page 1 when P = 0.
C6_PagesAtLeastOne ==
    \A P \in 0..MaxPages :
        (pc = "sleep" /\ pagesSeen = {P}) => fetched = UpTo(IF P = 0 THEN 1 ELSE P)

\* C6 witness: a poll call has ended after the pages 1 and 2
C6_Witness ==
    /\ pc = "sleep"
    /\ pagesSeen = {2}
    /\ fetched = <<1, 2>>

\* C7: a failed page fetch sleeps 10 seconds and retries the same page, with
\* no cap: nothing is yielded, the page is not advanced, poll neither returns
\* nor raises, and the retry can fail again.
C7_RetrySamePage ==
    /\ [][(pc = "fetch" /\ fetched' = fetched)
            => /\ pc' = "retry_sleep"
               /\ retrySleep' = 10
               /\ page' = page
               /\ yielded' = yielded
               /\ polls' = polls
               /\ cache' = cache
               /\ delivered' = delivered]_vars
    /\ [][pc = "retry_sleep"
            => /\ pc' = "fetch"
               /\ page' = page
               /\ fetched' = fetched
               /\ yielded' = yielded
               /\ polls' = polls]_vars

\* C7 witness: after a failed fetch of page 2 the retry succeeded and the
\* iteration goes on with page 2
C7_Witness ==
    /\ pc = "messages"
    /\ retried
    /\ page = 2
    /\ fetched = <<1, 2>>

\* the claim's test: product is 'RHOSE' and to is 'SHIPPED_LIVE'
ShippedRhose(m) ==
    /\ "product" \in DOMAIN m
    /\ "to" \in DOMAIN m
    /\ m.product = "RHOSE"
    /\ m.to = "SHIPPED_LIVE"

\* C8: poll yields a message if and only if its product is 'RHOSE' and its to
\* is 'SHIPPED_LIVE'; a message that is not yielded reaches neither notify nor
\* the review-bot nor the cache; the yielded positions are in page order.
C8_YieldIffShipped ==
    /\ [](last.kind # "none" =>
            /\ (last.kind \in {"skipped", "handled"}) <=> ShippedRhose(last.msg)
            /\ (last.kind = "dropped") <=> ~ShippedRhose(last.msg))
    /\ [](\A i \in DOMAIN yielded :
            /\ yielded[i] \in 1..data.raw_messages
            /\ yielded[i] <= idx
            /\ i > 1 => yielded[i - 1] < yielded[i])
    /\ [][(last'.kind # "none" /\ idx' = idx + 1 /\ ~ShippedRhose(last'.msg))
            => /\ yielded' = yielded
               /\ last'.notify = "none"
               /\ last'.bot = "none"
               /\ cache' = cache
               /\ delivered' = delivered
               /\ cycleCommented' = cycleCommented]_vars

\* C8 witness: after a yielded message, a message without product is dropped
C8_Witness ==
    /\ last.kind = "dropped"
    /\ "product" \notin DOMAIN last.msg
    /\ yielded = <<1>>
    /\ idx = 3

\* the claim's reading of the requests of PullUniverse: those whose title
\* passes, and the integer the first errata link of the first body line gives
FastTitled == {1, 2, 3, 4, 5, 6, 10}

LinkedErrata ==
    [n \in PullNumbers |->
        CASE n \in {1, 2} -> Some(1234)
          [] n = 3 -> Some(5678)
          [] n = 4 -> Some(0)
          [] OTHER -> None]

\* C9: in one review-bot call that returns, a request is commented on if and
\* only if its title passes and the integer of its first errata link equals
\* the message's errata_id.
C9_CommentIffMatch ==
    (token /\ botOut.called /\ ~botOut.raised) =>
        \A i \in DOMAIN botIn.pulls :
            LET n == botIn.pulls[i].number
            IN (n \in Range(botOut.comments)) <=>
                   /\ n \in FastTitled
                   /\ LinkedErrata[n] # None
                   /\ LinkedErrata[n] = Get(botIn.message, "errata_id")

\* C10: within one poll cycle a request is commented on at most once, whatever
\* messages the poll yields, several advisories with one errata_id included.
C10_OncePerCycle ==
    [][HandledStep => Range(last'.comments) \cap cycleCommented = {}]_vars

\* C11: without GITHUB_TOKEN the review-bot step is a no-op: no API call, no
\* comment, no error, and the notified message is recorded in the cache.
C11_NoTokenNoOp ==
    [][(HandledStep /\ ~token /\ last'.notify # "raised")
          => /\ last'.bot = "returned"
             /\ ~last'.api
             /\ last'.comments = <<>>
             /\ cycleCommented' = cycleCommented
             /\ last'.stored
             /\ last'.msg.fulladvisory \in DOMAIN cache'
             /\ pc' = pc]_vars

\* C11 witness: without a token a message was posted to the webhook and recorded
C11_Witness ==
    /\ ~token
    /\ last.kind = "handled"
    /\ last.notify = "posted"
    /\ last.bot = "returned"
    /\ last.msg.fulladvisory \in DOMAIN cache \ DOMAIN loaded

\* C12: after a cycle that completed without a fault the cache is the cache
\* from before the cycle plus one entry per advisory that was yielded, was not
\* cached and is a bug fix update, holding when and synopsis of the first such
\* message; old entries are unchanged and notify ran once per added entry.
C12_CycleAddsNewEntries ==
    pc = "sleep" =>
        /\ DOMAIN cache = DOMAIN cycleCache \cup DOMAIN cycleFirst
        /\ \A k \in DOMAIN cycleCache : cache[k] = cycleCache[k]
        /\ \A k \in DOMAIN cycleFirst :
               cache[k] = [when |-> cycleFirst[k].when, synopsis |-> cycleFirst[k].synopsis]
        /\ DOMAIN cycleNotifies = DOMAIN cycleFirst
        /\ \A k \in DOMAIN cycleNotifies : cycleNotifies[k] = 1

\* C12 witness: the second cycle of a process added one entry to a cache that
\* held another
C12_Witness ==
    /\ pc = "sleep"
    /\ polls = 2
    /\ runs = 1
    /\ DOMAIN cycleCache = {AdvA}
    /\ DOMAIN cycleFirst = {AdvB}
    /\ DOMAIN cache = {AdvA, AdvB}

\* C13: load of an absent file gives the empty mapping; a load right after a
\* save gives a mapping equal to the saved one, whatever an earlier save or the
\* initial file held.
C13_SaveLoadRoundTrip ==
    pc = "loaded" =>
        /\ file = None => loaded = EmptyCache
        /\ saves > 0 => loaded = cache

\* C13 witness: a second save replaced a two-entry file by another mapping,
\* which the load returned
C13_Witness ==
    /\ pc = "loaded"
    /\ saves = 2
    /\ prevFile # None
    /\ Len(prevFile[1]) = 2
    /\ prevFile # file
    /\ DOMAIN loaded = {AdvA, AdvB}
    /\ loaded[AdvA].when # loaded[AdvB].when

\* C14: each cycle moves the wake-up target by exactly the period; the sleep is
\* zero when the target is already past, else the whole seconds left until it.
C14_WakeUpTiming ==
    [][(pc = "polling" /\ pc' = "sleep")
          => /\ next_time' = next_time + PollPeriod * TicksPerSecond
             /\ sleepFor' = IF next_time' <= now' THEN 0
                             ELSE (next_time' - now') \div TicksPerSecond]_vars

\* C15: notify comes first, then the review-bot, then the cache insertion: an
\* entry is inserted only after notify and the review-bot returned, and when
\* notify raises there is no review-bot call and the advisory is not in the
\* cache saved at exit.
C15_NotifyThenBotThenRecord ==
    /\ []((last.kind = "handled" /\ last.notify = "raised") =>
            /\ last.bot = "none"
            /\ ~last.api
            /\ last.comments = <<>>
            /\ ~last.stored
            /\ pc = "exited"
            /\ last.msg.fulladvisory \notin DOMAIN cache
            /\ last.msg.fulladvisory \notin DOMAIN load(file))
    /\ []((last.kind = "handled" /\ last.stored) =>
            /\ last.notify \in {"printed", "posted"}
            /\ last.bot = "returned")
    /\ [][(pc = "messages" /\ cache' # cache) =>
            /\ HandledStep
            /\ last'.notify \in {"printed", "posted"}
            /\ last'.bot = "returned"
            /\ cache' = Record(cache, last'.msg)]_vars

\* C15 witness: after one advisory was recorded, the webhook failed for another
C15_Witness ==
    /\ pc = "exited"
    /\ last.kind = "handled"
    /\ last.notify = "raised"
    /\ last.msg.fulladvisory = AdvA
    /\ DOMAIN load(file) = {AdvB}

\* C16: while the loop runs the file is left alone: a process writes it only in
\* the one save made as an exception leaves run.
C16_FileUntouchedWhileRunning ==
    /\ [](pc # "exited" => saves = 0)
    /\ [](saves <= 1)
    /\ [][pc' # "exited" => (file' = file /\ prevFile' = prevFile)]_vars
    /\ [][(file' # file \/ saves' > saves)
            => (pc # "exited" /\ pc' = "exited" /\ saves' = 1)]_vars

\* C16 witness: after two cycles and two insertions the file is still absent
C16_Witness ==
    /\ pc = "sleep"
    /\ polls = 2
    /\ file = None
    /\ DOMAIN cache = {AdvA, AdvB}
    /\ saves = 0

\* C17 as claimed: an advisory that brought a comment in an earlier poll and is
\* yielded again is passed to the review-bot again, which comments again.
C17_CommentedAgainEachPoll ==
    [][(YieldStep /\ Contains(last'.msg.synopsis, "bug fix update")
               /\ last'.msg.fulladvisory \in approvedFor
               /\ last'.msg.fulladvisory \in DOMAIN cycleCache)
          => last'.kind = "handled"]_vars

\* C17 amended: with a mapping as cache, an advisory brings comments in at most
\* one review-bot call of a process; yielded again in a later poll it is
\* skipped and no request is commented on.
C17_NoRepeatWithinProcess ==
    /\ [][(HandledStep /\ last'.comments # <<>>)
            => last'.msg.fulladvisory \notin approvedFor]_vars
    /\ [][(YieldStep /\ last'.msg.fulladvisory \in approvedFor
                   /\ last'.msg.fulladvisory \in DOMAIN cycleCache)
            => /\ last'.kind = "skipped"
               /\ cycleCommented' = cycleCommented
               /\ approvedFor' = approvedFor]_vars

\* C17 witness: in the second poll of a process a bug fix message of an
\* advisory that brought a comment in the first poll is skipped
C17_Witness ==
    /\ runs = 1
    /\ polls = 2
    /\ last.kind = "skipped"
    /\ Contains(last.msg.synopsis, "bug fix update")
    /\ last.msg.fulladvisory \in approvedFor
    /\ last.msg.fulladvisory \in DOMAIN cycleCache
    /\ cycleCommented = {}

\* C18: with cache=None nothing is recorded and nothing is deduplicated: every
\* yielded bug fix message is notified, and passed to the review-bot when
\* notify returns, in every poll in which it appears.
C18_NoneNoDedupe ==
    /\ [](cache = EmptyCache)
    /\ [][(YieldStep /\ Contains(last'.msg.synopsis, "bug fix update"))
            => /\ last'.kind = "handled"
               /\ last'.notify # "none"
               /\ last'.notify # "raised" => last'.bot # "none"
               /\ ~last'.stored]_vars

\* C18 witness: an advisory that brought a comment in the first poll is
\* notified again in the second poll of the same process
C18_Witness ==
    /\ cacheIsNone
    /\ runs = 1
    /\ polls = 2
    /\ last.kind = "handled"
    /\ last.notify = "printed"
    /\ last.comments = <<>>
    /\ last.msg.fulladvisory \in approvedFor
    /\ DOMAIN cycleNotifies = {last.msg.fulladvisory}
    /\ cycleNotifies[last.msg.fulladvisory] = 1

\* C19: a request whose body yields the errata number 0 is never commented on,
\* whatever the message's errata_id.
C19_ZeroNeverCommented ==
    botOut.called =>
        \A i \in DOMAIN botIn.pulls :
            LET pr == botIn.pulls[i]
            IN (HasKey(pr, "body") /\ extract_errata_number_from_body(pr.body) = Some(0))
                   => pr.number \notin Range(botOut.comments)

\* C19 witness: a call for a message with errata_id 0 went through a listing
\* holding a request that links advisory 0 and returned without a comment
C19_Witness ==
    /\ token
    /\ botOut.called
    /\ ~botOut.raised
    /\ botOut.calls = 2
    /\ botOut.comments = <<>>
    /\ Get(botIn.message, "errata_id") = Some(0)
    /\ Len(botIn.pulls) = 1
    /\ extract_errata_number_from_body(botIn.pulls[1].body) = Some(0)

====
